---- MODULE Spec2Model ----
(***************************************************************************)
(* Model of pyoxidizer/src/py_packaging/libpython.rs: make_config_c,       *)
(* link_libpython and macos_clang_search_path.                             *)
(*                                                                         *)
(* Strings that the code builds with format!() are sequences of pieces,    *)
(* text is a sequence of pieces with "\n" pieces between the lines, a      *)
(* target triple is the sequence of its "-"-separated components and a     *)
(* path is the sequence of its components.                                 *)
(***************************************************************************)
EXTENDS Integers, Sequences, FiniteSets, TLC

\* ---------------------------------------------------------------- bounds
MaxExt == 2
MaxLibs == 2
MaxPaths == 2
MaxIncludes == 1
MaxObjs == 2

\* --------------------------------------------------------------- helpers
BSeq(S, n) == UNION {[1..k -> S] : k \in 0..n}

NoDupSeq(S, n) == {s \in BSeq(S, n) : \A a, b \in 1..Len(s) : a # b => s[a] # s[b]}

Range(s) == {s[k] : k \in 1..Len(s)}

None == [some |-> FALSE]
Some(v) == [some |-> TRUE, value |-> v]

\* Path::join
PathJoin(p, c) == Append(p, c)

\* Path::display
Display(p) == p

\* ----------------------------------------------------------- input domains
ExtNames == {"m1", "m2"}
InitSymbols == {"NULL", "PyInit_m1"}
ExtPairs == ExtNames \X InitSymbols

LinuxTriple == <<"x86_64", "unknown", "linux", "gnu">>
WindowsTriple == <<"x86_64", "pc", "windows", "msvc">>
DarwinTriple == <<"x86_64", "apple", "darwin">>
IosTriple == <<"aarch64", "apple", "ios">>
TargetTriples == {LinuxTriple, WindowsTriple, DarwinTriple, IosTriple}

\* (host triple, optimization level) pairs handed in by the caller
HostOpts == {<<LinuxTriple, "0">>, <<DarwinTriple, "3">>}
OutDirs == {<<"target", "out">>, <<"build">>}
SdkInfos == {None, Some("macosx11.1")}
CflagChoices == {None, Some(<<"-DPy_BUILD_CORE">>)}
IncludeNames == {"Python.h", "pyconfig.h"}
FileDataKinds == {"Memory", "Path"}
FrameworkNames == {"F1", "F2"}
SystemLibNames == {"S1", "S2"}
DynamicLibNames == {"D1", "D2"}
StaticLibNames == {"T1", "T2"}
SearchPaths == {<<"P1">>, <<"P2">>}

\* crate::environment::WINDOWS_TARGET_TRIPLES
WINDOWS_TARGET_TRIPLES == {WindowsTriple, <<"i686", "pc", "windows", "msvc">>}

\* str::contains("-apple-") on the "-"-joined triple: a component "apple"
\* with a component before it and one after it
ContainsApple(triple) == \E k \in 2..(Len(triple) - 1) : triple[k] = "apple"

\* str::ends_with("-apple-darwin") on the "-"-joined triple
EndsWithAppleDarwin(triple) ==
    /\ Len(triple) >= 3
    /\ triple[Len(triple) - 1] = "apple"
    /\ triple[Len(triple)] = "darwin"

\* ------------------------------------------------------------ make_config_c
NL == "\n"

ExternLine(init_fn) == <<"extern PyObject* ", init_fn, "(void);">>
TableRow(name, init_fn) == <<"{\"", name, "\", ", init_fn, "},">>
IncludeLine == <<"#include \"Python.h\"">>
TableOpenLine == <<"struct _inittab _PyImport_Inittab[] = {">>
SentinelLine == <<"{0, 0}">>
TableCloseLine == <<"};">>

\* the first loop without its test for "NULL"
ExternDeclsUnfiltered(extensions) ==
    [k \in 1..Len(extensions) |-> ExternLine(extensions[k][2])]

\* the first loop: one extern declaration per init function that is not "NULL"
RECURSIVE ExternDecls(_)
ExternDecls(extensions) ==
    IF extensions = <<>> THEN <<>>
    ELSE LET init_fn == Head(extensions)[2]
         IN  (IF init_fn # "NULL" THEN <<ExternLine(init_fn)>> ELSE <<>>)
                 \o ExternDecls(Tail(extensions))

\* the second loop: one table row per extension
RECURSIVE TableRows(_)
TableRows(extensions) ==
    IF extensions = <<>> THEN <<>>
    ELSE <<TableRow(Head(extensions)[1], Head(extensions)[2])>>
             \o TableRows(Tail(extensions))

\* Vec<String>::join("\n")
RECURSIVE JoinLines(_)
JoinLines(lines) ==
    IF lines = <<>> THEN <<>>
    ELSE IF Len(lines) = 1 THEN Head(lines)
    ELSE Head(lines) \o <<NL>> \o JoinLines(Tail(lines))

make_config_c(extensions) ==
    JoinLines(<<IncludeLine>>
              \o ExternDecls(extensions)
              \o <<TableOpenLine>>
              \o TableRows(extensions)
              \o <<SentinelLine, TableCloseLine>>)

\* --------------------------------------------------- macos_clang_search_path
\* What `clang --print-search-dirs` can do: fail to spawn, exit non-zero, or
\* exit zero with these lines on stdout (a line is its "="-separated fields).
ProgramsLine == <<"programs: ", "/usr/bin">>
LibrariesLine == <<"libraries: ", "/usr/lib/clang/12">>
ClangStdouts == {<<>>, <<ProgramsLine>>, <<ProgramsLine, LibrariesLine>>}
ClangRuns ==
    {[spawned |-> FALSE, success |-> FALSE, stdout |-> <<>>]}
        \cup {[spawned |-> TRUE, success |-> FALSE, stdout |-> <<>>]}
        \cup {[spawned |-> TRUE, success |-> TRUE, stdout |-> o] : o \in ClangStdouts}

\* str::contains("libraries: =")
HasLibrariesMarker(line) == \E k \in 1..(Len(line) - 1) : line[k] = "libraries: "

\* the for loop over the lines of stdout, returning at the first marker line
RECURSIVE ScanSearchDirs(_)
ScanSearchDirs(lines) ==
    IF lines = <<>> THEN [ok |-> TRUE, path |-> None]
    ELSE IF HasLibrariesMarker(Head(lines))
         THEN IF Len(Head(lines)) < 2
              THEN [ok |-> FALSE, path |-> None]
              ELSE [ok |-> TRUE,
                    path |-> Some(PathJoin(PathJoin(<<Head(lines)[2]>>, "lib"), "darwin"))]
         ELSE ScanSearchDirs(Tail(lines))

\* Result<Option<PathBuf>>: ok = FALSE is the Err return
macos_clang_search_path(run) ==
    IF ~run.spawned THEN [ok |-> FALSE, path |-> None]
    ELSE IF ~run.success THEN [ok |-> TRUE, path |-> None]
    ELSE ScanSearchDirs(run.stdout)

\* --------------------------------------------------------------- cc::Build
\* cc::Build::new()
NewBuild ==
    [flags |-> <<>>, out_dir |-> None, host |-> None, target |-> None,
     opt_level |-> None, files |-> <<>>, objects |-> <<>>, includes |-> <<>>,
     cargo_metadata |-> TRUE]

\* the archive cc::Build::compile(output) leaves in its out_dir: "<output>.lib"
\* for an msvc target and "lib<output>.a" otherwise, for the two outputs that
\* link_libpython asks for
CcArchiveName(target, output) ==
    IF "msvc" \in Range(target)
    THEN CASE output = "pyembeddedconfig" -> "pyembeddedconfig.lib"
           [] output = "pythonXY" -> "pythonXY.lib"
    ELSE CASE output = "pyembeddedconfig" -> "libpyembeddedconfig.a"
           [] output = "pythonXY" -> "libpythonXY.a"

\* how a failing cc::Build::compile ends the call: by unwinding or by ending
\* the process
CompileOutcomes == {"ok", "unwind", "exit"}

\* ------------------------------------------------------------ link_libpython
VARIABLES context, out_dir, host_triple, target_triple, opt_level, apple_sdk_info,
          pc, temp_dir, out_files, temp_files, config_c_source, build,
          cargo_metadata, libpyembeddedconfig_path, idx, trace, passes, result

inputs == <<context, out_dir, host_triple, target_triple, opt_level, apple_sdk_info>>
vars == <<context, out_dir, host_triple, target_triple, opt_level, apple_sdk_info,
          pc, temp_dir, out_files, temp_files, config_c_source, build,
          cargo_metadata, libpyembeddedconfig_path, idx, trace, passes, result>>

windows == target_triple \in WINDOWS_TARGET_TRIPLES

NoResult ==
    [kind |-> "None", error |-> "", libpython_path |-> <<>>,
     libpyembeddedconfig_path |-> <<>>, cargo_metadata |-> <<>>]
Err(e) == [NoResult EXCEPT !.kind = "Err", !.error = e]
Unwound == [NoResult EXCEPT !.kind = "Panic"]
Exited == [NoResult EXCEPT !.kind = "Exit"]

\* temp_dir.path()
TempDirPath == <<"libpython.tmp">>

\* Drop for tempfile::TempDir
DropTempDir(d) == IF d = "exists" THEN "removed" ELSE d

\* leaving the function by return or by unwinding: the locals are dropped
Return(res) ==
    /\ pc' = "done"
    /\ result' = res
    /\ temp_dir' = DropTempDir(temp_dir)

\* std::process::exit inside the call: nothing is dropped
ProcessExit ==
    /\ pc' = "done"
    /\ result' = Exited
    /\ temp_dir' = temp_dir

Goto(next) ==
    /\ pc' = next
    /\ UNCHANGED <<result, temp_dir>>

Event(e) == trace' = Append(trace, e)

ContextOf(exts, incs, objs, fws, sys, dyn, sta, paths, cflags) ==
    [init_functions |-> exts, includes |-> incs, object_files |-> objs,
     frameworks |-> fws, system_libraries |-> sys, dynamic_libraries |-> dyn,
     static_libraries |-> sta, library_search_paths |-> paths,
     inittab_cflags |-> cflags]

SampleExtensions == <<<<"m1", "PyInit_m1">>, <<"m2", "NULL">>>>

\* the state on entry to link_libpython, the arguments left to the Init of
\* each specification
Entry ==
    /\ pc = "start"
    /\ temp_dir = "none"
    /\ out_files = {}
    /\ temp_files = {}
    /\ config_c_source = <<>>
    /\ build = NewBuild
    /\ cargo_metadata = <<>>
    /\ libpyembeddedconfig_path = <<>>
    /\ idx = 0
    /\ trace = <<>>
    /\ passes = <<>>
    /\ result = NoResult

\* the whole pipeline over varied platforms, staging inputs and object files
Init ==
    /\ Entry
    /\ \E incs \in NoDupSeq(IncludeNames, MaxIncludes),
          objs \in BSeq(FileDataKinds, MaxObjs), cflags \in CflagChoices :
          context = ContextOf(SampleExtensions, incs, objs, <<"F1">>, <<"S1">>,
                              <<"D1">>, <<"T1">>, <<<<"P1">>>>, cflags)
    /\ out_dir \in OutDirs
    /\ \E ho \in HostOpts : host_triple = ho[1] /\ opt_level = ho[2]
    /\ target_triple \in TargetTriples
    /\ apple_sdk_info \in SdkInfos

\* the pipeline over varied extension lists
InitGen ==
    /\ Entry
    /\ \E exts \in BSeq(ExtPairs, MaxExt) :
          context = ContextOf(exts, <<"Python.h">>, <<"Memory">>, <<>>, <<>>,
                              <<>>, <<>>, <<>>, None)
    /\ out_dir = <<"build">>
    /\ host_triple = LinuxTriple
    /\ opt_level = "0"
    /\ target_triple \in {LinuxTriple, DarwinTriple}
    /\ apple_sdk_info \in SdkInfos

\* the pipeline over varied library lists and search paths
InitMeta ==
    /\ Entry
    /\ \E fws \in NoDupSeq(FrameworkNames, MaxLibs),
          sys \in NoDupSeq(SystemLibNames, MaxLibs),
          dyn \in NoDupSeq(DynamicLibNames, MaxLibs),
          sta \in NoDupSeq(StaticLibNames, MaxLibs),
          paths \in BSeq(SearchPaths, MaxPaths) :
          context = ContextOf(SampleExtensions, <<"Python.h">>, <<"Path">>, fws, sys, dyn,
                              sta, paths, None)
    /\ out_dir = <<"build">>
    /\ host_triple = LinuxTriple
    /\ opt_level = "0"
    /\ target_triple \in {LinuxTriple, DarwinTriple}
    /\ apple_sdk_info = Some("macosx11.1")

\* ------------------------------------------------------------------ steps
IoError == "io"
ConfigError == "Apple SDK info should be defined when targeting Apple platforms"
SdkError == "resolving Apple SDK to use"
ParentError == "unable to resolve parent directory"

LinkLib(prefix, name) == <<prefix, name>>
LinkSearch(prefix, path) == <<prefix>> \o Display(path)

\* line 73: tempfile::Builder::new().prefix("libpython").tempdir()?
CreateTempDir ==
    /\ pc = "start"
    /\ \E created \in BOOLEAN :
          IF created
          THEN /\ temp_dir' = "exists"
               /\ pc' = "generate"
               /\ result' = result
          ELSE Return(Err(IoError))
    /\ Event("temp_dir")
    /\ UNCHANGED <<inputs, out_files, temp_files, config_c_source, build,
                   cargo_metadata, libpyembeddedconfig_path, idx, passes>>

\* line 92
GenerateConfigC ==
    /\ pc = "generate"
    /\ config_c_source' = make_config_c(context.init_functions)
    /\ Goto("write_out")
    /\ Event("generate")
    /\ UNCHANGED <<inputs, out_files, temp_files, build, cargo_metadata,
                   libpyembeddedconfig_path, idx, passes>>

\* line 96 left out: config.c goes to the staging directory only
WriteConfigOutSkipped ==
    /\ pc = "write_out"
    /\ Goto("write_temp")
    /\ Event("write_out")
    /\ UNCHANGED <<inputs, out_files, temp_files, config_c_source, build, cargo_metadata,
                   libpyembeddedconfig_path, idx, passes>>

\* line 96: fs::write(&config_c_path, ...)?
WriteConfigOut ==
    /\ pc = "write_out"
    /\ \E written \in BOOLEAN :
          IF written
          THEN /\ out_files' = out_files \cup {"config.c"}
               /\ Goto("write_temp")
          ELSE /\ out_files' = out_files
               /\ Return(Err(IoError))
    /\ Event("write_out")
    /\ UNCHANGED <<inputs, temp_files, config_c_source, build, cargo_metadata,
                   libpyembeddedconfig_path, idx, passes>>

\* line 97: fs::write(&config_c_temp_path, ...)?
WriteConfigTemp ==
    /\ pc = "write_temp"
    /\ \E written \in BOOLEAN :
          IF written
          THEN /\ temp_files' = temp_files \cup {<<"config.c">>}
               /\ Goto("includes")
          ELSE /\ temp_files' = temp_files
               /\ Return(Err(IoError))
    /\ idx' = 0
    /\ Event("write_temp")
    /\ UNCHANGED <<inputs, out_files, config_c_source, build, cargo_metadata,
                   libpyembeddedconfig_path, passes>>

\* lines 100-108: one iteration of the loop over context.includes
IncludeOutcomes == {"ok", "no_parent", "mkdir_error", "resolve_error", "write_error"}

StageInclude ==
    /\ pc = "includes"
    /\ idx < Len(context.includes)
    /\ \E o \in IncludeOutcomes :
          IF o = "ok"
          THEN /\ temp_files' = temp_files \cup {<<context.includes[idx + 1]>>}
               /\ idx' = idx + 1
               /\ Goto("includes")
          ELSE /\ UNCHANGED <<temp_files, idx>>
               /\ Return(Err(IF o = "no_parent" THEN ParentError ELSE IoError))
    /\ Event("stage_include")
    /\ UNCHANGED <<inputs, out_files, config_c_source, build, cargo_metadata,
                   libpyembeddedconfig_path, passes>>

\* lines 113-117
CflagsOf(cflags) == IF cflags.some THEN cflags.value ELSE <<>>

\* lines 132-133 without the "-isysroot" flag before the path
SysrootFlagsPathOnly(sdk_path) == Display(sdk_path)

\* lines 132-133
SysrootFlags(sdk_path) == <<"-isysroot">> \o Display(sdk_path)

\* lines 136-143
Pass1Build(flags) ==
    [NewBuild EXCEPT !.flags = flags,
                     !.out_dir = Some(out_dir),
                     !.host = Some(host_triple),
                     !.target = Some(target_triple),
                     !.opt_level = Some(opt_level),
                     !.files = <<PathJoin(TempDirPath, "config.c")>>,
                     !.includes = <<TempDirPath>>,
                     !.cargo_metadata = FALSE]

\* env.resolve_apple_sdk(): the SDK found, or an error
SdkResolutions == {Some(<<"SDKs", "MacOSX.sdk">>), None}

\* lines 111-143 with a missing Apple SDK descriptor skipped over instead of
\* reported
ConfigurePass1SdkOptional ==
    /\ pc = "includes"
    /\ idx = Len(context.includes)
    /\ IF ContainsApple(target_triple) /\ apple_sdk_info.some
       THEN /\ \E sdk \in SdkResolutions :
                  IF sdk.some
                  THEN /\ build' = Pass1Build(CflagsOf(context.inittab_cflags)
                                              \o SysrootFlags(sdk.value))
                       /\ Goto("pass1")
                  ELSE /\ build' = build
                       /\ Return(Err(SdkError))
            /\ Event("resolve_sdk")
       ELSE /\ build' = Pass1Build(CflagsOf(context.inittab_cflags))
            /\ Goto("pass1")
            /\ UNCHANGED trace
    /\ UNCHANGED <<inputs, out_files, temp_files, config_c_source, cargo_metadata,
                   libpyembeddedconfig_path, idx, passes>>

\* lines 111-143: the first cc::Build, with the Apple SDK resolved for an
\* Apple target
ConfigurePass1 ==
    /\ pc = "includes"
    /\ idx = Len(context.includes)
    /\ IF ContainsApple(target_triple)
       THEN IF ~apple_sdk_info.some
            THEN /\ Return(Err(ConfigError))
                 /\ UNCHANGED <<build, trace>>
            ELSE /\ \E sdk \in SdkResolutions :
                       IF sdk.some
                       THEN /\ build' = Pass1Build(CflagsOf(context.inittab_cflags)
                                                   \o SysrootFlags(sdk.value))
                            /\ Goto("pass1")
                       ELSE /\ build' = build
                            /\ Return(Err(SdkError))
                 /\ Event("resolve_sdk")
       ELSE /\ build' = Pass1Build(CflagsOf(context.inittab_cflags))
            /\ Goto("pass1")
            /\ UNCHANGED trace
    /\ UNCHANGED <<inputs, out_files, temp_files, config_c_source, cargo_metadata,
                   libpyembeddedconfig_path, idx, passes>>

\* lines 146-150
LibpyembeddedconfigName(is_windows) ==
    IF is_windows THEN "pyembeddedconfig.lib" ELSE "libpyembeddedconfig.a"

\* lines 227-231 with the Unix name on every target
LibpythonNameUnix(is_windows) == "libpythonXY.a"

\* lines 227-231
LibpythonName(is_windows) ==
    IF is_windows THEN "pythonXY.lib" ELSE "libpythonXY.a"

\* a compile call whose failure is swallowed: the run goes on without the archive
CompileIgnoringFailure(output, then) ==
    /\ passes' = Append(passes, [output |-> output, build |-> build])
    /\ \E o \in CompileOutcomes :
          /\ out_files' = IF o = "ok"
                          THEN out_files \cup {CcArchiveName(target_triple, output)}
                          ELSE out_files
          /\ Goto(then)

\* one cc::Build::compile(output) call: the archive appears in out_dir, or the
\* call does not come back
Compile(output, then) ==
    /\ passes' = Append(passes, [output |-> output, build |-> build])
    /\ \E o \in CompileOutcomes :
          IF o = "ok"
          THEN /\ out_files' = out_files \cup {CcArchiveName(target_triple, output)}
               /\ Goto(then)
          ELSE /\ out_files' = out_files
               /\ IF o = "unwind" THEN Return(Unwound) ELSE ProcessExit

\* line 144
CompilePass1 ==
    /\ pc = "pass1"
    /\ Compile("pyembeddedconfig", "registered")
    /\ Event("pass1")
    /\ UNCHANGED <<inputs, temp_files, config_c_source, build, cargo_metadata,
                   libpyembeddedconfig_path, idx>>

\* lines 156-162
Pass2Build ==
    [NewBuild EXCEPT !.out_dir = Some(out_dir),
                     !.host = Some(host_triple),
                     !.target = Some(target_triple),
                     !.opt_level = Some(opt_level),
                     !.cargo_metadata = FALSE]

\* lines 146-162: the registration library's path and directive, and the
\* second cc::Build
ConfigurePass2 ==
    /\ pc = "registered"
    /\ libpyembeddedconfig_path' = PathJoin(out_dir, LibpyembeddedconfigName(windows))
    /\ cargo_metadata' =
           Append(cargo_metadata, LinkLib("cargo:rustc-link-lib=static=", "pyembeddedconfig"))
    /\ build' = Pass2Build
    /\ idx' = 0
    /\ Goto("objects")
    /\ Event("directive_registration")
    /\ UNCHANGED <<inputs, out_files, temp_files, config_c_source, passes>>

\* lines 164-175: one iteration of the loop over context.object_files
StageObject ==
    /\ pc = "objects"
    /\ idx < Len(context.object_files)
    /\ IF context.object_files[idx + 1] = "Memory"
       THEN \E written \in BOOLEAN :
               IF written
               THEN /\ temp_files' = temp_files \cup {<<"libpython.", ToString(idx), ".o">>}
                    /\ build' = [build EXCEPT !.objects =
                                    Append(@, TempDirPath \o <<"libpython.", ToString(idx), ".o">>)]
                    /\ idx' = idx + 1
                    /\ Goto("objects")
               ELSE /\ UNCHANGED <<temp_files, build, idx>>
                    /\ Return(Err(IoError))
       ELSE /\ build' = [build EXCEPT !.objects = Append(@, <<"dist", ToString(idx), ".o">>)]
            /\ idx' = idx + 1
            /\ temp_files' = temp_files
            /\ Goto("objects")
    /\ Event("stage_object")
    /\ UNCHANGED <<inputs, out_files, config_c_source, cargo_metadata,
                   libpyembeddedconfig_path, passes>>

FrameworkDirective(framework) == LinkLib("cargo:rustc-link-lib=framework=", framework)
LibDirective(lib) == LinkLib("cargo:rustc-link-lib=", lib)
StaticLibDirective(lib) == LinkLib("cargo:rustc-link-lib=static=", lib)
NativeSearchDirective(path) == LinkSearch("cargo:rustc-link-search=native=", path)
ClangSearchDirective(path) == LinkSearch("cargo:rustc-link-search=", path)
ClangRtDirective == <<"cargo:rustc-link-lib=clang_rt.osx">>

\* lines 177-191: the four loops over the libraries of the context
LibraryDirectives(ctx) ==
    [k \in 1..Len(ctx.frameworks) |-> FrameworkDirective(ctx.frameworks[k])]
        \o [k \in 1..Len(ctx.system_libraries) |-> LibDirective(ctx.system_libraries[k])]
        \o [k \in 1..Len(ctx.dynamic_libraries) |-> LibDirective(ctx.dynamic_libraries[k])]
        \o [k \in 1..Len(ctx.static_libraries) |-> StaticLibDirective(ctx.static_libraries[k])]

EmitLibraryDirectives ==
    /\ pc = "objects"
    /\ idx = Len(context.object_files)
    /\ cargo_metadata' = cargo_metadata \o LibraryDirectives(context)
    /\ Goto("probe")
    /\ Event("directive_libraries")
    /\ UNCHANGED <<inputs, out_files, temp_files, config_c_source, build,
                   libpyembeddedconfig_path, idx, passes>>

\* lines 200-204, given what macos_clang_search_path returned Ok
ClangDirectives(path) ==
    (IF path.some THEN <<ClangSearchDirective(path.value)>> ELSE <<>>)
        \o <<ClangRtDirective>>

\* lines 199-205 moved after the second compile: nothing happens here
MacosProbeSkipped ==
    /\ pc = "probe"
    /\ Goto("pass2")
    /\ UNCHANGED <<inputs, out_files, temp_files, config_c_source, build,
                   cargo_metadata, libpyembeddedconfig_path, idx, passes, trace>>

\* lines 199-205
MacosProbe ==
    /\ pc = "probe"
    /\ IF EndsWithAppleDarwin(target_triple)
       THEN /\ \E run \in ClangRuns :
                  LET found == macos_clang_search_path(run)
                  IN  IF found.ok
                      THEN /\ cargo_metadata' = cargo_metadata \o ClangDirectives(found.path)
                           /\ Goto("pass2")
                           /\ Event(IF found.path.some THEN "probe_found"
                                    ELSE IF run.success THEN "probe_no_marker"
                                    ELSE "probe_nonzero")
                      ELSE /\ cargo_metadata' = cargo_metadata
                           /\ Return(Err(IoError))
                           /\ Event("probe_not_spawned")
       ELSE /\ Goto("pass2")
            /\ UNCHANGED <<cargo_metadata, trace>>
    /\ UNCHANGED <<inputs, out_files, temp_files, config_c_source, build,
                   libpyembeddedconfig_path, idx, passes>>

\* line 224
CompilePass2 ==
    /\ pc = "pass2"
    /\ Compile("pythonXY", "linked")
    /\ Event("pass2")
    /\ UNCHANGED <<inputs, temp_files, config_c_source, build, cargo_metadata,
                   libpyembeddedconfig_path, idx>>

\* lines 233-241 with the search paths of the context pushed first
FinalDirectivesPathsFirst(dir, ctx) ==
    <<StaticLibDirective("pythonXY")>>
        \o [k \in 1..Len(ctx.library_search_paths) |-> NativeSearchDirective(ctx.library_search_paths[k])]
        \o <<NativeSearchDirective(dir)>>

\* lines 233-241
FinalDirectives(dir, ctx) ==
    <<StaticLibDirective("pythonXY"), NativeSearchDirective(dir)>>
        \o [k \in 1..Len(ctx.library_search_paths) |-> NativeSearchDirective(ctx.library_search_paths[k])]

\* lines 227-247
EmitAndReturn ==
    /\ pc = "linked"
    /\ cargo_metadata' = cargo_metadata \o FinalDirectives(out_dir, context)
    /\ Return([kind |-> "Ok", error |-> "",
               libpython_path |-> PathJoin(out_dir, LibpythonName(windows)),
               libpyembeddedconfig_path |-> libpyembeddedconfig_path,
               cargo_metadata |-> cargo_metadata'])
    /\ Event("directive_final")
    /\ UNCHANGED <<inputs, out_files, temp_files, config_c_source, build,
                   libpyembeddedconfig_path, idx, passes>>

Next ==
    \/ CreateTempDir
    \/ GenerateConfigC
    \/ WriteConfigOut
    \/ WriteConfigTemp
    \/ StageInclude
    \/ ConfigurePass1
    \/ CompilePass1
    \/ ConfigurePass2
    \/ StageObject
    \/ EmitLibraryDirectives
    \/ MacosProbe
    \/ CompilePass2
    \/ EmitAndReturn

Spec == Init /\ [][Next]_vars
SpecGen == InitGen /\ [][Next]_vars
SpecMeta == InitMeta /\ [][Next]_vars

\* ---------------------------------------------------------------- reading
\* the lines of a text: the pieces between the "\n" pieces
RECURSIVE SplitLinesFrom(_, _, _)
SplitLinesFrom(text, line, lines) ==
    IF text = <<>> THEN Append(lines, line)
    ELSE IF Head(text) = NL
         THEN SplitLinesFrom(Tail(text), <<>>, Append(lines, line))
         ELSE SplitLinesFrom(Tail(text), Append(line, Head(text)), lines)

SplitLines(text) == SplitLinesFrom(text, <<>>, <<>>)

IsExternDecl(line) ==
    Len(line) = 3 /\ line[1] = "extern PyObject* " /\ line[3] = "(void);"

IsTableRow(line) ==
    /\ Len(line) = 5
    /\ line[1] = "{\""
    /\ line[3] = "\", "
    /\ line[5] = "},"

IsSentinel(line) == Len(line) = 1 /\ line[1] = "{0, 0}"

HasInitFunction(ext) == ext[2] # "NULL"

Generated == pc \notin {"start", "generate"} /\ "generate" \in Range(trace)

\* C1: the text make_config_c generates has one extern declaration per entry
\* whose init-symbol is not "NULL" and none for a "NULL" entry, one table row
\* per entry, both in the order of the entries, and then exactly one {0, 0}
\* sentinel row; for no entries that is no declaration, no row and one
\* sentinel.
C1_ConfigCShape ==
    Generated =>
        LET exts == context.init_functions
            lines == SplitLines(config_c_source)
            externs == SelectSeq(lines, IsExternDecl)
            rows == SelectSeq(lines, IsTableRow)
            sentinels == SelectSeq(lines, IsSentinel)
            declared == SelectSeq(exts, HasInitFunction)
        IN  /\ [k \in 1..Len(externs) |-> externs[k][2]]
                   = [k \in 1..Len(declared) |-> declared[k][2]]
            /\ \A k \in 1..Len(externs) : externs[k][2] # "NULL"
            /\ [k \in 1..Len(rows) |-> <<rows[k][2], rows[k][4]>>] = exts
            /\ Len(sentinels) = 1
            /\ Len(lines) = Len(externs) + Len(rows) + 4
            /\ \A k \in 1..Len(externs) : IsExternDecl(lines[1 + k])
            /\ \A k \in 1..Len(rows) : IsTableRow(lines[2 + Len(externs) + k])
            /\ IsSentinel(lines[Len(lines) - 1])

C1_Witness ==
    /\ Generated
    /\ Len(context.init_functions) >= 2
    /\ \E a, b \in 1..Len(context.init_functions) :
          /\ context.init_functions[a][2] = "NULL"
          /\ context.init_functions[b][2] # "NULL"

\* ------------------------------------------------------------- directives
Succeeded == pc = "done" /\ result.kind = "Ok"
Failed == pc = "done" /\ result.kind # "Ok"

ProbeEvents == {"probe_found", "probe_no_marker", "probe_nonzero", "probe_not_spawned"}
ProbeFailureEvents == ProbeEvents \ {"probe_found"}

IsSearchDirective(d) == d[1] = "cargo:rustc-link-search="

\* C2: the directive list of a successful run is, in this order: the static
\* directive for pyembeddedconfig; the frameworks; the system, the dynamic and
\* the static libraries; on macOS the runtime search path (only if the probe
\* found one) and then clang_rt.osx; the static directive for pythonXY and
\* the native search path of the output directory; the native search paths
\* of library_search_paths.  Each group is in input order, and the output
\* directory's search path is before every path of library_search_paths.
C2_DirectiveOrder ==
    Succeeded =>
        LET md == result.cargo_metadata
            fws == context.frameworks
            sys == context.system_libraries
            dyn == context.dynamic_libraries
            sta == context.static_libraries
            lsp == context.library_search_paths
            head == <<<<"cargo:rustc-link-lib=static=", "pyembeddedconfig">>>>
                      \o [k \in 1..Len(fws) |-> <<"cargo:rustc-link-lib=framework=", fws[k]>>]
                      \o [k \in 1..Len(sys) |-> <<"cargo:rustc-link-lib=", sys[k]>>]
                      \o [k \in 1..Len(dyn) |-> <<"cargo:rustc-link-lib=", dyn[k]>>]
                      \o [k \in 1..Len(sta) |-> <<"cargo:rustc-link-lib=static=", sta[k]>>]
            tail == <<<<"cargo:rustc-link-lib=static=", "pythonXY">>,
                      <<"cargo:rustc-link-search=native=">> \o out_dir>>
                      \o [k \in 1..Len(lsp) |-> <<"cargo:rustc-link-search=native=">> \o lsp[k]]
            mid == SubSeq(md, Len(head) + 1, Len(md) - Len(tail))
        IN  /\ Len(md) >= Len(head) + Len(tail)
            /\ SubSeq(md, 1, Len(head)) = head
            /\ SubSeq(md, Len(md) - Len(tail) + 1, Len(md)) = tail
            /\ IF ~EndsWithAppleDarwin(target_triple) THEN mid = <<>>
               ELSE IF "probe_found" \in Range(trace)
                    THEN /\ Len(mid) = 2
                         /\ IsSearchDirective(mid[1])
                         /\ mid[2] = <<"cargo:rustc-link-lib=clang_rt.osx">>
                    ELSE mid = <<<<"cargo:rustc-link-lib=clang_rt.osx">>>>
            /\ md[Len(md) - Len(lsp)] = <<"cargo:rustc-link-search=native=">> \o out_dir

C2_Witness ==
    /\ Succeeded
    /\ EndsWithAppleDarwin(target_triple)
    /\ "probe_found" \in Range(trace)
    /\ Len(context.frameworks) = 2
    /\ Len(context.system_libraries) = 1
    /\ Len(context.dynamic_libraries) = 1
    /\ Len(context.static_libraries) = 2
    /\ context.library_search_paths = <<<<"P2">>, <<"P1">>>>

\* C3: on a macOS target a failed probe (clang not launched, clang exiting
\* non-zero, no "libraries: =" line) never ends the run: clang_rt.osx is
\* among the directives and no runtime search path is.
C3_ProbeFailureNotFatal ==
    (EndsWithAppleDarwin(target_triple) /\ Range(trace) \cap ProbeFailureEvents # {}) =>
        /\ ~(pc = "done" /\ trace[Len(trace)] \in ProbeFailureEvents)
        /\ <<"cargo:rustc-link-lib=clang_rt.osx">> \in Range(cargo_metadata)
        /\ \A k \in 1..Len(cargo_metadata) : ~IsSearchDirective(cargo_metadata[k])

\* -------------------------------------------------------------- artifacts
RegistrationArchive == CcArchiveName(target_triple, "pyembeddedconfig")
PythonArchive == CcArchiveName(target_triple, "pythonXY")
Artifacts == {RegistrationArchive, PythonArchive}

LastEvent == trace[Len(trace)]

\* C4 as stated: a run that fails for another reason than the macOS probe
\* leaves neither static library in the output directory.
C4_NoArtifactAfterFailure ==
    (Failed /\ LastEvent \notin ProbeEvents) => out_files \cap Artifacts = {}

\* C4: a run that succeeds has produced both static libraries; a run that
\* fails returns nothing and never leaves the Python library of pass 2, and
\* it leaves the registration library of pass 1 exactly when it fails after
\* pass 1 has succeeded (a write of an in-memory object file, the probe,
\* pass 2).
C4_ResultAllOrNothing ==
    /\ Succeeded => Artifacts \subseteq out_files
    /\ Failed =>
          /\ PythonArchive \notin out_files
          /\ result.cargo_metadata = <<>>
          /\ result.libpython_path = <<>>
          /\ RegistrationArchive \in out_files
                <=> LastEvent \in {"stage_object", "pass2"} \cup ProbeEvents

C4_Witness ==
    /\ Failed
    /\ LastEvent = "stage_object"
    /\ RegistrationArchive \in out_files

\* C5: the staging directory is gone after every way out of link_libpython:
\* a successful return, every error return and a failure of either compile.
C5_StagingRemovedOnEveryExit == pc = "done" => temp_dir # "exists"

\* -------------------------------------------------------- Apple SDK check
MissingSdk == ContainsApple(target_triple) /\ ~apple_sdk_info.some

NothingInvoked ==
    /\ passes = <<>>
    /\ Range(trace) \cap (ProbeEvents \cup {"resolve_sdk", "pass1", "pass2"}) = {}

\* C6 as stated: an Apple target without an SDK descriptor ends in the
\* configuration error, with no compiler, SDK or probe invocation started.
C6_ConfigErrorReturned ==
    (MissingSdk /\ pc = "done") => (result = Err(ConfigError) /\ NothingInvoked)

StagingEvents == {"temp_dir", "write_out", "write_temp", "stage_include"}

\* config.c is in both directories and every include is in the staging directory
Staged ==
    /\ "config.c" \in out_files
    /\ temp_files = {<<"config.c">>} \cup {<<n>> : n \in Range(context.includes)}

\* C6: an Apple target without an SDK descriptor never starts a compiler, SDK
\* or probe invocation and always ends in an error: the configuration error
\* once staging is through, the error of the staging step that failed
\* otherwise.
C6_FailsBeforeAnyInvocation ==
    MissingSdk =>
        /\ NothingInvoked
        /\ pc \in {"start", "generate", "write_out", "write_temp", "includes", "done"}
        /\ pc = "done" =>
              /\ result.kind = "Err"
              /\ IF Staged
                 THEN result.error = ConfigError
                 ELSE result.error \in {IoError, ParentError}
                          /\ LastEvent \in StagingEvents

C6_Witness == MissingSdk /\ pc = "done" /\ result = Err(ConfigError)

\* C7 as stated: when the configuration error is returned nothing has been
\* written to the output directory.
C7_NothingWrittenOnConfigError ==
    (pc = "done" /\ result = Err(ConfigError)) => out_files = {}

\* C7: when the configuration error is returned the output directory holds
\* config.c and nothing else, the staging directory has had config.c and
\* every include, and there is no directive and no compile.
C7_OnlyConfigCWritten ==
    (pc = "done" /\ result = Err(ConfigError)) =>
        /\ out_files = {"config.c"}
        /\ temp_files = {<<"config.c">>} \cup {<<n>> : n \in Range(context.includes)}
        /\ cargo_metadata = <<>>
        /\ passes = <<>>

C7_Witness ==
    /\ pc = "done"
    /\ result = Err(ConfigError)
    /\ Len(context.includes) >= 1

\* ------------------------------------------------------------ the compiles
SameTriplesAndLevel(b) ==
    /\ b.out_dir = Some(out_dir)
    /\ b.host = Some(host_triple)
    /\ b.target = Some(target_triple)
    /\ b.opt_level = Some(opt_level)

\* C8 as stated: on an Apple target the second compile has -isysroot <sdk>
\* as the first has, with the same host, target and optimization level.
C8_Pass2HasSysroot ==
    (ContainsApple(target_triple) /\ Len(passes) = 2) =>
        /\ "-isysroot" \in Range(passes[1].build.flags)
        /\ "-isysroot" \in Range(passes[2].build.flags)
        /\ SameTriplesAndLevel(passes[1].build)
        /\ SameTriplesAndLevel(passes[2].build)

\* C8: on an Apple target the first compile has the inittab flags and then
\* -isysroot <sdk>; the second compile has the same output directory, host,
\* target and optimization level and no flag at all.
C8_OnlyPass1HasSysroot ==
    ContainsApple(target_triple) =>
        /\ Len(passes) >= 1 =>
              LET flags == passes[1].build.flags
                  given == CflagsOf(context.inittab_cflags)
              IN  /\ passes[1].output = "pyembeddedconfig"
                  /\ SubSeq(flags, 1, Len(given)) = given
                  /\ Len(flags) > Len(given) + 1
                  /\ flags[Len(given) + 1] = "-isysroot"
                  /\ Len(SelectSeq(flags, LAMBDA f : f = "-isysroot")) = 1
                  /\ SameTriplesAndLevel(passes[1].build)
        /\ Len(passes) = 2 =>
              /\ passes[2].output = "pythonXY"
              /\ passes[2].build.flags = <<>>
              /\ SameTriplesAndLevel(passes[2].build)

C8_Witness ==
    /\ ContainsApple(target_triple)
    /\ Len(passes) = 2
    /\ context.inittab_cflags.some

\* ------------------------------------------------------------ stage order
\* the stages of the specification: 1 generate, 2 stage, 3 resolve platform,
\* 4 pass 1, 5 pass 2 (with the object files it is given), 6 emit metadata
StatedStage(e) ==
    CASE e \in {"temp_dir", "generate"} -> 1
      [] e \in {"write_out", "write_temp", "stage_include"} -> 2
      [] e \in {"resolve_sdk"} \cup ProbeEvents -> 3
      [] e = "pass1" -> 4
      [] e \in {"stage_object", "pass2"} -> 5
      [] OTHER -> 6

\* the steps in the order of the code
CodeStep(e) ==
    CASE e = "temp_dir" -> 0
      [] e = "generate" -> 1
      [] e = "write_out" -> 2
      [] e = "write_temp" -> 3
      [] e = "stage_include" -> 4
      [] e = "resolve_sdk" -> 5
      [] e = "pass1" -> 6
      [] e = "directive_registration" -> 7
      [] e = "stage_object" -> 8
      [] e = "directive_libraries" -> 9
      [] e \in ProbeEvents -> 10
      [] e = "pass2" -> 11
      [] e = "directive_final" -> 12

LoopEvents == {"stage_include", "stage_object"}

\* C9 as stated: the stages run once each in the order generate, stage,
\* resolve platform (the macOS probe included), pass 1, pass 2, emit: the
\* probe is over before pass 1 starts and no directive is there before
\* pass 2 is over.
C9_StagesInStatedOrder ==
    /\ \A a, b \in 1..Len(trace) : a < b => StatedStage(trace[a]) <= StatedStage(trace[b])
    /\ cargo_metadata # <<>> => "pass2" \in Range(trace)

\* C9: the steps run at most once each (the two staging loops once per
\* entry) in the order generate, stage config.c and the includes, resolve
\* the Apple SDK, pass 1, registration directive, stage the object files,
\* library directives, macOS probe and its directives, pass 2, pythonXY and
\* search-path directives.  The Apple SDK is resolved before pass 1, the
\* macOS probe runs between pass 1 and pass 2 on every macOS run that gets
\* to pass 2, and only the last group of directives waits for pass 2.
C9_StepsInCodeOrder ==
    /\ \A a, b \in 1..Len(trace) :
          a < b => IF trace[a] \in LoopEvents /\ trace[a] = trace[b]
                   THEN TRUE
                   ELSE CodeStep(trace[a]) < CodeStep(trace[b])
    /\ "pass1" \in Range(trace) =>
          (ContainsApple(target_triple) <=> "resolve_sdk" \in Range(trace))
    /\ "pass2" \in Range(trace) =>
          /\ EndsWithAppleDarwin(target_triple) <=> Range(trace) \cap ProbeEvents # {}
          /\ Len(cargo_metadata) >= 1 + Len(context.frameworks)
          /\ cargo_metadata[1] = <<"cargo:rustc-link-lib=static=", "pyembeddedconfig">>
    /\ <<"cargo:rustc-link-lib=static=", "pythonXY">> \in Range(cargo_metadata) =>
          "pass2" \in Range(trace)
    /\ cargo_metadata # <<>> => "pass1" \in Range(trace)

C9_Witness ==
    /\ Succeeded
    /\ EndsWithAppleDarwin(target_triple)
    /\ Len(context.object_files) >= 2
    /\ Len(context.includes) >= 1

\* ----------------------------------------------------------------- naming
\* C10: the two paths of a successful run depend on the target triple and the
\* output directory alone: pyembeddedconfig.lib and pythonXY.lib in the
\* output directory for a Windows target triple, libpyembeddedconfig.a and
\* libpythonXY.a in it for every other triple.
C10_ArtifactPaths ==
    Succeeded =>
        IF target_triple \in WINDOWS_TARGET_TRIPLES
        THEN /\ result.libpyembeddedconfig_path = out_dir \o <<"pyembeddedconfig.lib">>
             /\ result.libpython_path = out_dir \o <<"pythonXY.lib">>
        ELSE /\ result.libpyembeddedconfig_path = out_dir \o <<"libpyembeddedconfig.a">>
             /\ result.libpython_path = out_dir \o <<"libpythonXY.a">>

C10_Witness ==
    /\ Succeeded
    /\ target_triple \in WINDOWS_TARGET_TRIPLES
    /\ host_triple # target_triple
    /\ opt_level = "3"

====
